---- MODULE Spec2Model ----
(***************************************************************************)
(* Model of korylprince/competition-scorer: the bolt-backed versioned      *)
(* store (db/db.go), its codec (db/marshal.go) and the credential store.   *)
(*                                                                         *)
(* A bolt bucket is a function from keys to entries; an entry is either a  *)
(* byte value [t |-> "v", v |-> bytes] or a nested bucket                  *)
(* [t |-> "b", b |-> bucket].  Go's nil ([]byte, *Bucket, *Competition,    *)
(* *int32) is the empty tuple <<>>, a non-nil value x is <<x>>.            *)
(***************************************************************************)
EXTENDS Integers, Sequences, FiniteSets, TLC

VARIABLES db, now, last, hist, codec, conc, web, subs, sess

vars == <<db, now, last, hist, codec, conc, web, subs, sess>>

\* the transactions in flight, the HTTP requests, the subscribe service and
\* the session store
others == <<conc, web, subs, sess>>

----------------------------------------------------------------------------
(* Bounds *)

\* calls of Write and Init in a behaviour
MaxClock == 3
\* rounds and teams of a competition handed to the codec
MaxRounds == 2
MaxTeams == 1

----------------------------------------------------------------------------
(* bolt buckets *)

Nil == <<>>

EmptyBucket == [k \in {} |-> Nil]

HasKey(b, k) == k \in DOMAIN b

\* Bucket.Bucket / Tx.Bucket: nil unless k names a nested bucket
HasBucket(b, k) == HasKey(b, k) /\ b[k].t = "b"

Bucket(b, k) == b[k].b

\* Bucket.Get: nil when the key is missing or names a nested bucket
Get(b, k) == IF HasKey(b, k) /\ b[k].t = "v" THEN <<b[k].v>> ELSE Nil

Put(b, k, v) ==
    [x \in (DOMAIN b) \cup {k} |-> IF x = k THEN [t |-> "v", v |-> v] ELSE b[x]]

SetBucket(b, k, sub) ==
    [x \in (DOMAIN b) \cup {k} |-> IF x = k THEN [t |-> "b", b |-> sub] ELSE b[x]]

\* Bucket.CreateBucketIfNotExists: the existing nested bucket, or a new one
SubOrEmpty(b, k) == IF HasBucket(b, k) THEN Bucket(b, k) ELSE EmptyBucket

DeleteBucket(b, k) == [x \in (DOMAIN b) \ {k} |-> b[x]]

\* string(x) of a []byte that may be nil
Str(o) == IF o = Nil THEN "" ELSE o[1]

\* the bytes of a []byte that may be nil
Bytes(o) == IF o = Nil THEN <<>> ELSE o[1]

----------------------------------------------------------------------------
(* encoding/binary, big endian, int32 *)

\* BytesToInt that reads the four bytes in the wrong (little endian) order
bytesToIntLE(data) ==
    IF Len(data) < 4 THEN [err |-> "EOF", i |-> 0]
    ELSE LET hi == data[4]
             lo == data[3] * 65536 + data[2] * 256 + data[1]
         IN  [err |-> "",
              i |-> IF hi >= 128
                    THEN (((hi - 128) * 16777216 + lo) - 2147483647) - 1
                    ELSE hi * 16777216 + lo]

bytesToInt(data) ==
    IF Len(data) < 4 THEN [err |-> "EOF", i |-> 0]
    ELSE LET hi == data[1]
             lo == data[2] * 65536 + data[3] * 256 + data[4]
         IN  [err |-> "",
              i |-> IF hi >= 128
                    THEN (((hi - 128) * 16777216 + lo) - 2147483647) - 1
                    ELSE hi * 16777216 + lo]

intToBytes(i) ==
    LET j  == IF i >= 0 THEN i ELSE (i + 2147483647) + 1
        hi == IF i >= 0 THEN j \div 16777216 ELSE 128 + (j \div 16777216)
    IN  <<hi, (j \div 65536) % 256, (j \div 256) % 256, j % 256>>

----------------------------------------------------------------------------
(* time.Time binary encoding: a version byte followed by the instant *)

TimeVersion == 1

MarshalBinary(t) == <<TimeVersion, t>>

UnmarshalBinary(o) ==
    IF o = Nil \/ Len(o[1]) = 0 THEN [err |-> "no data", t |-> 0]
    ELSE IF o[1][1] # TimeVersion THEN [err |-> "unsupported version", t |-> 0]
    ELSE IF Len(o[1]) # 2 THEN [err |-> "invalid length", t |-> 0]
    ELSE [err |-> "", t |-> o[1][2]]

----------------------------------------------------------------------------
(* Codec: db/marshal.go *)

RECURSIVE readScores(_, _, _)
\* the loop of readTeam over rounds i .. rounds-1 (0-based)
readScores(sb, i, rounds) ==
    IF i >= rounds THEN [err |-> "", scores |-> <<>>]
    ELSE LET score == Get(sb, intToBytes(i))
         IN  IF score # Nil
             THEN LET val == bytesToInt(score[1])
                  IN  IF val.err # ""
                      THEN [err |-> "Couldn't decode score", scores |-> <<>>]
                      ELSE LET rest == readScores(sb, i + 1, rounds)
                           IN  [err |-> rest.err,
                                scores |-> <<(<<val.i>>)>> \o rest.scores]
             ELSE LET rest == readScores(sb, i + 1, rounds)
                  IN  [err |-> rest.err, scores |-> <<Nil>> \o rest.scores]

\* bo is the *bolt.Bucket argument: Nil or <<bucket>>
readTeam(bo, rounds) ==
    IF bo = Nil THEN [err |-> "panic", t |-> Nil]
    ELSE LET b    == bo[1]
             name == Str(Get(b, "name"))
         IN  IF name = "" THEN [err |-> "Team name was empty", t |-> Nil]
             ELSE IF ~HasBucket(b, "scores")
                  THEN [err |-> "Team scores Bucket was nil", t |-> Nil]
                  ELSE LET s == readScores(Bucket(b, "scores"), 0, rounds)
                       IN  IF s.err # "" THEN [err |-> s.err, t |-> Nil]
                           ELSE [err |-> "",
                                 t |-> <<[Name |-> name, Scores |-> s.scores]>>]

\* the loop of writeTeam over rounds i .. rounds-1: no key for a nil score
RECURSIVE writeScores(_, _, _, _)
writeScores(sb, t, i, rounds) ==
    IF i >= rounds THEN sb
    ELSE IF t.Scores[i + 1] = Nil THEN writeScores(sb, t, i + 1, rounds)
         ELSE writeScores(Put(sb, intToBytes(i), intToBytes(t.Scores[i + 1][1])),
                          t, i + 1, rounds)

\* writeTeam without the length check: it writes the scores the team has
writeTeamUnchecked(b, t, rounds) ==
    [err |-> "",
     b |-> SetBucket(Put(b, "name", t.Name), "scores",
                     writeScores(SubOrEmpty(Put(b, "name", t.Name), "scores"), t, 0,
                                 Len(t.Scores)))]

writeTeam(b, t, rounds) ==
    LET b1 == Put(b, "name", t.Name)
    IN  IF Len(t.Scores) # rounds
        THEN [err |-> "Team Rounds doesn't match Competition Rounds", b |-> b1]
        ELSE [err |-> "",
              b |-> SetBucket(b1, "scores",
                              writeScores(SubOrEmpty(b1, "scores"), t, 0, rounds))]

RECURSIVE readRounds(_, _, _)
readRounds(rb, i, rounds) ==
    IF i >= rounds THEN [err |-> "", rounds |-> <<>>]
    ELSE LET r == Str(Get(rb, intToBytes(i)))
         IN  IF r = "" THEN [err |-> "Round was empty", rounds |-> <<>>]
             ELSE LET rest == readRounds(rb, i + 1, rounds)
                  IN  [err |-> rest.err, rounds |-> <<r>> \o rest.rounds]

RECURSIVE readTeams(_, _, _, _)
readTeams(tb, i, teams, rounds) ==
    IF i >= teams THEN [err |-> "", teams |-> <<>>]
    ELSE LET k    == intToBytes(i)
             team == readTeam(IF HasBucket(tb, k) THEN <<Bucket(tb, k)>> ELSE Nil,
                              rounds)
         IN  IF team.err = "panic" THEN [err |-> "panic", teams |-> <<>>]
             ELSE IF team.err # "" THEN [err |-> "Couldn't read Team", teams |-> <<>>]
             ELSE LET rest == readTeams(tb, i + 1, teams, rounds)
                  IN  [err |-> rest.err, teams |-> <<team.t[1]>> \o rest.teams]

readCompetition(b) ==
    LET name == Str(Get(b, "name"))
        Fail(e) == [err |-> e, c |-> Nil]
    IN  IF name = "" THEN Fail("Competition name was empty")
        ELSE IF ~HasBucket(b, "config") THEN Fail("Competition config Bucket was nil")
        ELSE
        LET cfg    == Bucket(b, "config")
            rounds == bytesToInt(Bytes(Get(cfg, "rounds")))
            teams  == bytesToInt(Bytes(Get(cfg, "teams")))
        IN  IF rounds.err # "" THEN Fail("Couldn't decode config.rounds")
            ELSE IF teams.err # "" THEN Fail("Couldn't decode config.teams")
            ELSE IF rounds.i < 0 \/ teams.i < 0 THEN Fail("panic")
            ELSE IF ~HasBucket(b, "rounds") THEN Fail("Competition rounds Bucket was nil")
            ELSE
            LET rs == readRounds(Bucket(b, "rounds"), 0, rounds.i)
            IN  IF rs.err # "" THEN Fail(rs.err)
                ELSE IF ~HasBucket(b, "teams") THEN Fail("Competition teams Bucket was nil")
                ELSE
                LET ts == readTeams(Bucket(b, "teams"), 0, teams.i, rounds.i)
                IN  IF ts.err # "" THEN Fail(ts.err)
                    ELSE [err |-> "",
                          c |-> <<[Name |-> name, Rounds |-> rs.rounds,
                                   Teams |-> ts.teams]>>]

RECURSIVE writeRounds(_, _, _)
writeRounds(rb, c, i) ==
    IF i >= Len(c.Rounds) THEN rb
    ELSE writeRounds(Put(rb, intToBytes(i), c.Rounds[i + 1]), c, i + 1)

RECURSIVE writeTeams(_, _, _)
\* the loop over c.Teams from index i: stops at the first team that fails
writeTeams(tb, c, i) ==
    IF i >= Len(c.Teams) THEN [err |-> "", b |-> tb]
    ELSE LET k == intToBytes(i)
             w == writeTeam(SubOrEmpty(tb, k), c.Teams[i + 1], Len(c.Rounds))
             tb1 == SetBucket(tb, k, w.b)
         IN  IF w.err # "" THEN [err |-> "Couldn't write Team", b |-> tb1]
             ELSE writeTeams(tb1, c, i + 1)

\* cp is the *Competition argument: Nil or <<competition>>
writeCompetition(b, cp) ==
    IF cp = Nil THEN [err |-> "panic", b |-> b]
    ELSE
    LET c   == cp[1]
        b1  == Put(b, "name", c.Name)
        cfg == Put(Put(SubOrEmpty(b1, "config"), "rounds", intToBytes(Len(c.Rounds))),
                   "teams", intToBytes(Len(c.Teams)))
        b2  == SetBucket(b1, "config", cfg)
        b3  == SetBucket(b2, "rounds", writeRounds(SubOrEmpty(b2, "rounds"), c, 0))
        ts  == writeTeams(SubOrEmpty(b3, "teams"), c, 0)
    IN  [err |-> ts.err, b |-> SetBucket(b3, "teams", ts.b)]

----------------------------------------------------------------------------
(* Versioned store and credential store: db/db.go.  tx is the root bucket   *)
(* as the transaction sees it; a result carries the error ("" is nil).     *)

\* bcrypt.GenerateFromPassword / CompareHashAndPassword: a salted one-way
\* hash verifies exactly the password it was generated from
BcryptCost == 12

GenerateFromPassword(password) == [cost |-> BcryptCost, of |-> password]

CompareHashAndPassword(hash, password) ==
    hash # Nil /\ hash[1].cost = BcryptCost /\ hash[1].of = password

Authenticate(tx, username, password) ==
    IF ~HasBucket(tx, "config")
    THEN [err |-> "Database config Bucket was nil", status |-> FALSE]
    ELSE LET configBucket == Bucket(tx, "config")
         IN  IF username # Str(Get(configBucket, "username"))
             THEN [err |-> "", status |-> FALSE]
             ELSE [err |-> "",
                   status |-> CompareHashAndPassword(Get(configBucket, "hash"),
                                                     password)]

\* UpdateCredentials that starts the config bucket afresh, dropping its other keys
UpdateCredentialsTxFresh(tx, username, password, fault) ==
    IF fault = "hash"
    THEN [err |-> "Couldn't hash password",
          tx  |-> SetBucket(tx, "config", Put(EmptyBucket, "username", username))]
    ELSE [err |-> "",
          tx  |-> SetBucket(tx, "config",
                            Put(Put(EmptyBucket, "username", username),
                                "hash", GenerateFromPassword(password)))]

\* the body of UpdateCredentials between Begin and return
UpdateCredentialsTx(tx, username, password, fault) ==
    IF fault = "hash"
    THEN [err |-> "Couldn't hash password",
          tx  |-> SetBucket(tx, "config",
                            Put(SubOrEmpty(tx, "config"), "username", username))]
    ELSE [err |-> "",
          tx  |-> SetBucket(tx, "config",
                            Put(Put(SubOrEmpty(tx, "config"), "username", username),
                                "hash", GenerateFromPassword(password)))]

\* the deferred function of UpdateCredentials: roll back on error, else commit
deferUpdateCredentials(old, r, fault) ==
    [db  |-> IF r.err # "" \/ fault = "commit" THEN old ELSE r.tx,
     err |-> IF r.err # "" THEN r.err
             ELSE IF fault = "commit" THEN "Couldn't commit transaction" ELSE ""]

UpdateCredentials(old, username, password, fault) ==
    deferUpdateCredentials(old, UpdateCredentialsTx(old, username, password, fault),
                           fault)

LastModified(tx) ==
    IF ~HasBucket(tx, "competition")
    THEN [err |-> "Database competition Bucket was nil", t |-> 0]
    ELSE IF ~HasBucket(Bucket(tx, "competition"), "config")
    THEN [err |-> "Competition config Bucket was nil", t |-> 0]
    ELSE LET t == UnmarshalBinary(Get(Bucket(Bucket(tx, "competition"), "config"),
                                      "last_modified"))
         IN  IF t.err # "" THEN [err |-> "Couldn't decode last_modified", t |-> 0]
             ELSE t

\* getLatestRevision that starts counting at 0 when the counter is absent
getLatestRevisionFromZero(tx) ==
    IF ~HasBucket(tx, "config")
    THEN [err |-> "Database config Bucket was nil", i |-> 0]
    ELSE LET lastb == Get(Bucket(tx, "config"), "current_revision")
         IN  IF lastb = Nil THEN [err |-> "", i |-> 0] ELSE bytesToInt(lastb[1])

getLatestRevision(tx) ==
    IF ~HasBucket(tx, "config")
    THEN [err |-> "Database config Bucket was nil", i |-> 0]
    ELSE LET lastb == Get(Bucket(tx, "config"), "current_revision")
         IN  IF lastb = Nil THEN [err |-> "", i |-> -1] ELSE bytesToInt(lastb[1])

RECURSIVE revisionsLoop(_, _, _)
\* the loop of Revisions over i .. last
revisionsLoop(revisionsBucket, i, lastId) ==
    IF i > lastId THEN [err |-> "", revs |-> <<>>]
    ELSE IF ~HasBucket(revisionsBucket, intToBytes(i))
    THEN [err |-> "Couldn't get Revision", revs |-> <<>>]
    ELSE LET revisionBucket == Bucket(revisionsBucket, intToBytes(i))
         IN  IF ~HasBucket(revisionBucket, "config")
             THEN [err |-> "Revision config Bucket was nil", revs |-> <<>>]
             ELSE LET t == UnmarshalBinary(Get(Bucket(revisionBucket, "config"),
                                               "last_modified"))
                  IN  IF t.err # ""
                      THEN [err |-> "Couldn't decode Revision config.last_modified",
                            revs |-> <<>>]
                      ELSE LET rest == revisionsLoop(revisionsBucket, i + 1, lastId)
                           IN  [err |-> rest.err,
                                revs |-> IF rest.err # "" THEN <<>>
                                         ELSE <<[ID |-> i, Timestamp |-> t.t]>>
                                              \o rest.revs]

Revisions(tx) ==
    IF ~HasBucket(tx, "revisions") THEN [err |-> "", revs |-> <<>>]
    ELSE LET lastr == getLatestRevision(tx)
         IN  IF lastr.err # ""
             THEN [err |-> "Couldn't get latest Revision", revs |-> <<>>]
             ELSE IF lastr.i < -1 THEN [err |-> "panic", revs |-> <<>>]
             ELSE revisionsLoop(Bucket(tx, "revisions"), 0, lastr.i)

\* ReadRevision that decodes the live competition bucket instead of the snapshot
ReadRevisionLive(tx, id) ==
    IF ~HasBucket(tx, "revisions") THEN [err |-> "", rev |-> Nil]
    ELSE IF ~HasBucket(Bucket(tx, "revisions"), intToBytes(id))
    THEN [err |-> "", rev |-> Nil]
    ELSE
    LET revisionBucket == Bucket(Bucket(tx, "revisions"), intToBytes(id))
    IN  IF ~HasBucket(revisionBucket, "config")
        THEN [err |-> "Revision config Bucket was nil", rev |-> Nil]
        ELSE
        LET t == UnmarshalBinary(Get(Bucket(revisionBucket, "config"), "last_modified"))
        IN  IF t.err # ""
            THEN [err |-> "Couldn't decode Revision config.last_modified", rev |-> Nil]
            ELSE IF ~HasBucket(tx, "competition")
            THEN [err |-> "Revision competition Bucket was nil", rev |-> Nil]
            ELSE LET c == readCompetition(Bucket(tx, "competition"))
                 IN  IF c.err # ""
                     THEN [err |-> IF c.err = "panic" THEN "panic"
                                   ELSE "Couldn't read Revision Competition",
                           rev |-> Nil]
                     ELSE [err |-> "",
                           rev |-> <<[ID |-> id, Timestamp |-> t.t,
                                      Competition |-> c.c]>>]

\* ReadRevision that reports a missing revision bucket as an error
ReadRevisionStrict(tx, id) ==
    IF ~HasBucket(tx, "revisions") THEN [err |-> "", rev |-> Nil]
    ELSE IF ~HasBucket(Bucket(tx, "revisions"), intToBytes(id))
    THEN [err |-> "Revision Bucket was nil", rev |-> Nil]
    ELSE
    LET revisionBucket == Bucket(Bucket(tx, "revisions"), intToBytes(id))
    IN  IF ~HasBucket(revisionBucket, "config")
        THEN [err |-> "Revision config Bucket was nil", rev |-> Nil]
        ELSE
        LET t == UnmarshalBinary(Get(Bucket(revisionBucket, "config"), "last_modified"))
        IN  IF t.err # ""
            THEN [err |-> "Couldn't decode Revision config.last_modified", rev |-> Nil]
            ELSE IF ~HasBucket(revisionBucket, "competition")
            THEN [err |-> "Revision competition Bucket was nil", rev |-> Nil]
            ELSE LET c == readCompetition(Bucket(revisionBucket, "competition"))
                 IN  IF c.err # ""
                     THEN [err |-> IF c.err = "panic" THEN "panic"
                                   ELSE "Couldn't read Revision Competition",
                           rev |-> Nil]
                     ELSE [err |-> "",
                           rev |-> <<[ID |-> id, Timestamp |-> t.t,
                                      Competition |-> c.c]>>]

ReadRevision(tx, id) ==
    IF ~HasBucket(tx, "revisions") THEN [err |-> "", rev |-> Nil]
    ELSE IF ~HasBucket(Bucket(tx, "revisions"), intToBytes(id))
    THEN [err |-> "", rev |-> Nil]
    ELSE
    LET revisionBucket == Bucket(Bucket(tx, "revisions"), intToBytes(id))
    IN  IF ~HasBucket(revisionBucket, "config")
        THEN [err |-> "Revision config Bucket was nil", rev |-> Nil]
        ELSE
        LET t == UnmarshalBinary(Get(Bucket(revisionBucket, "config"), "last_modified"))
        IN  IF t.err # ""
            THEN [err |-> "Couldn't decode Revision config.last_modified", rev |-> Nil]
            ELSE IF ~HasBucket(revisionBucket, "competition")
            THEN [err |-> "Revision competition Bucket was nil", rev |-> Nil]
            ELSE LET c == readCompetition(Bucket(revisionBucket, "competition"))
                 IN  IF c.err # ""
                     THEN [err |-> IF c.err = "panic" THEN "panic"
                                   ELSE "Couldn't read Revision Competition",
                           rev |-> Nil]
                     ELSE [err |-> "",
                           rev |-> <<[ID |-> id, Timestamp |-> t.t,
                                      Competition |-> c.c]>>]

\* Read that reports an error on a store with no competition bucket
ReadStrict(tx) ==
    IF ~HasBucket(tx, "competition")
    THEN [err |-> "Database competition Bucket was nil", c |-> Nil]
    ELSE readCompetition(Bucket(tx, "competition"))

Read(tx) ==
    IF ~HasBucket(tx, "competition") THEN [err |-> "", c |-> Nil]
    ELSE readCompetition(Bucket(tx, "competition"))

(* writeRevision, the archive step, in the order of its statements; each   *)
(* stage receives what the statements before it computed.  A result has    *)
(* the error returned, whether a runtime panic was raised, and the         *)
(* transaction's root bucket at that point.                                *)

Returned(e, tx) == [err |-> e, panic |-> FALSE, tx |-> tx]

\* write current revision: config.current_revision := last + 1
\* write current revision that leaves the counter as it was
writeCurrentRevisionKept(tx, id) ==
    IF ~HasBucket(tx, "config") THEN Returned("Database config Bucket was nil", tx)
    ELSE Returned("", tx)

writeCurrentRevision(tx, id) ==
    IF ~HasBucket(tx, "config") THEN Returned("Database config Bucket was nil", tx)
    ELSE Returned("", SetBucket(tx, "config",
                                Put(Bucket(tx, "config"), "current_revision",
                                    intToBytes(id))))

\* the revision bucket rb stored under revisions/id
StoreRevision(tx, id, rb) ==
    SetBucket(tx, "revisions", SetBucket(Bucket(tx, "revisions"), intToBytes(id), rb))

\* write competition: w is writeCompetition's result on the new bucket
writeRevisionCompetition(tx, id, rb, w) ==
    IF w.err # ""
    THEN Returned("Couldn't write Revision",
                  StoreRevision(tx, id, SetBucket(rb, "competition", w.b)))
    ELSE writeCurrentRevision(StoreRevision(tx, id, SetBucket(rb, "competition", w.b)),
                              id)

\* write config that stamps the zero time instead of the bytes it was given
writeRevisionConfigZeroTime(tx, id, rb, old, lastModified) ==
    IF HasKey(rb, "config")
    THEN Returned("Couldn't create Revision config bucket", StoreRevision(tx, id, rb))
    ELSE writeRevisionCompetition(tx, id,
                                  SetBucket(rb, "config",
                                            Put(EmptyBucket, "last_modified",
                                                MarshalBinary(0))),
                                  writeCompetition(EmptyBucket, old))

\* write config: CreateBucket fails on a name that exists
writeRevisionConfig(tx, id, rb, old, lastModified) ==
    IF HasKey(rb, "config")
    THEN Returned("Couldn't create Revision config bucket", StoreRevision(tx, id, rb))
    ELSE IF HasKey(rb, "competition")
    THEN Returned("Couldn't create Revision competition bucket",
                  StoreRevision(tx, id,
                                SetBucket(rb, "config",
                                          Put(EmptyBucket, "last_modified",
                                              Bytes(lastModified)))))
    ELSE writeRevisionCompetition(tx, id,
                                  SetBucket(rb, "config",
                                            Put(EmptyBucket, "last_modified",
                                                Bytes(lastModified))),
                                  writeCompetition(EmptyBucket, old))

\* create revision bucket last + 1; lastr is getLatestRevision's result
createRevisionBucket(tx, old, lastModified, lastr) ==
    IF lastr.err # "" THEN Returned("Couldn't get latest Revision", tx)
    ELSE writeRevisionConfig(tx, lastr.i + 1,
                             SubOrEmpty(Bucket(tx, "revisions"),
                                        intToBytes(lastr.i + 1)),
                             old, lastModified)

\* tx.CreateBucketIfNotExists("revisions"), then the latest id
createRevisionsBucket(tx, old, lastModified) ==
    createRevisionBucket(tx, old, lastModified, getLatestRevision(tx))

\* read old last modified; old is readCompetition's result on the live bucket
readOldLastModified(tx, old) ==
    IF old.err = "panic" THEN [err |-> "", panic |-> TRUE, tx |-> tx]
    ELSE IF old.err # "" THEN Returned("Couldn't read competition", tx)
    ELSE IF ~HasBucket(Bucket(tx, "competition"), "config")
    THEN Returned("Competition config Bucket was nil", tx)
    ELSE createRevisionsBucket(
             SetBucket(tx, "revisions", SubOrEmpty(tx, "revisions")), old.c,
             Get(Bucket(Bucket(tx, "competition"), "config"), "last_modified"))

writeRevision(tx) ==
    IF ~HasBucket(tx, "competition") THEN Returned("", tx)
    ELSE readOldLastModified(tx, readCompetition(Bucket(tx, "competition")))

(* Write: the body between Begin and return.  Its result has err, the      *)
(* named result at exit, panic, a runtime panic, tx, and enc: the call of  *)
(* writeCompetition on the live bucket (the container before and after).   *)

NoEnc == [called |-> FALSE, err |-> "", before |-> EmptyBucket, after |-> EmptyBucket]

\* the new live bucket with its config.last_modified
NewCompetitionBucket(t) ==
    SetBucket(EmptyBucket, "config", Put(EmptyBucket, "last_modified", MarshalBinary(t)))

\* return writeCompetition(competitionBucket, c): w is its result
WriteEncoded(tx, before, w) ==
    [err   |-> IF w.err = "panic" THEN "" ELSE w.err,
     panic |-> w.err = "panic",
     tx    |-> SetBucket(tx, "competition", w.b),
     enc   |-> [called |-> TRUE, err |-> w.err, before |-> before, after |-> w.b]]

\* clear competition, stamp the time, create the live bucket and encode
WriteCompetitionBucket(rev, cp, t, fault) ==
    IF rev.panic THEN [err |-> "", panic |-> TRUE, tx |-> rev.tx, enc |-> NoEnc]
    ELSE IF rev.err # ""
    THEN [err |-> "Couldn't write Revision", panic |-> FALSE, tx |-> rev.tx,
          enc |-> NoEnc]
    ELSE IF fault = "create"
    THEN [err |-> "Couldn't create competition Bucket", panic |-> FALSE,
          tx |-> DeleteBucket(rev.tx, "competition"), enc |-> NoEnc]
    ELSE WriteEncoded(DeleteBucket(rev.tx, "competition"), NewCompetitionBucket(t),
                      writeCompetition(NewCompetitionBucket(t), cp))

\* store current competition as a revision, then the rest
WriteTx(tx, cp, t, fault) ==
    WriteCompetitionBucket(writeRevision(tx), cp, t, fault)

\* a deferred function that commits whatever the body left behind
deferWriteAlwaysCommit(old, r, fault) ==
    [db    |-> IF fault = "commit" THEN old ELSE r.tx,
     err   |-> IF r.err # "" THEN r.err
               ELSE IF fault = "commit" THEN "Couldn't commit transaction" ELSE "",
     panic |-> r.panic,
     enc   |-> r.enc]

\* the deferred function of Write: roll back when err is set, else commit
deferWrite(old, r, fault) ==
    [db    |-> IF r.err # "" \/ fault = "commit" THEN old ELSE r.tx,
     err   |-> IF r.err # "" THEN r.err
               ELSE IF fault = "commit" THEN "Couldn't commit transaction" ELSE "",
     panic |-> r.panic,
     enc   |-> r.enc]

Write(old, cp, t, fault) == deferWrite(old, WriteTx(old, cp, t, fault), fault)

\* fmt.Sprintf("Round %d", r)
RoundName(r) == "Round " \o ToString(r)

\* Scores: make([]int32, rounds).  The expression is rounds zero values, and
\* the field it initialises is declared []*int32 (Team.Scores), for which the
\* expression does not type-check; elem is the element type the slots get:
\* "int32" as the expression is written (rounds scores of 0), "*int32" as the
\* field is declared (rounds nil pointers).
InitScores(rounds, elem) ==
    [i \in 1..rounds |-> IF elem = "int32" THEN <<0>> ELSE Nil]

InitCompetition(name, rounds, teams, elem) ==
    [Name   |-> name,
     Rounds |-> [r \in 1..rounds |-> RoundName(r)],
     Teams  |-> [i \in 1..Len(teams) |->
                    [Name |-> teams[i], Scores |-> InitScores(rounds, elem)]]]

\* if err := db.Write(c); err != nil: w is Write's result
InitWritten(w) ==
    [db    |-> w.db,
     err   |-> IF w.err # "" THEN "Couldn't write competition to database" ELSE "",
     panic |-> w.panic,
     enc   |-> w.enc]

\* Init after its UpdateCredentials, whose result is uc
InitCredentialsUpdated(uc, name, rounds, teams, elem, t, fault) ==
    IF uc.err # ""
    THEN [db |-> uc.db, err |-> "Couldn't update credentials", panic |-> FALSE,
          enc |-> NoEnc]
    ELSE IF rounds < 0
    THEN [db |-> uc.db, err |-> "", panic |-> TRUE, enc |-> NoEnc]
    ELSE InitWritten(Write(uc.db, <<InitCompetition(name, rounds, teams, elem)>>, t, fault))

\* boltDB.Init; fault "hash" hits its UpdateCredentials, the others its Write
DBInit(old, name, rounds, teams, elem, username, password, t, fault) ==
    InitCredentialsUpdated(
        UpdateCredentials(old, username, password,
                          IF fault = "hash" THEN fault ELSE "none"),
        name, rounds, teams, elem, t, fault)

----------------------------------------------------------------------------
(* Inputs *)

CompA == [Name |-> "A", Rounds |-> <<"R1">>,
          Teams |-> <<[Name |-> "T", Scores |-> <<Nil>>]>>]

CompB == [Name |-> "B", Rounds |-> <<"R1">>,
          Teams |-> <<[Name |-> "T", Scores |-> <<(<<0>>)>>]>>]

\* a team with no score slot in a competition of one round
CompShape == [Name |-> "A", Rounds |-> <<"R1">>,
              Teams |-> <<[Name |-> "T", Scores |-> <<>>]>>]

CompNoName == [Name |-> "", Rounds |-> <<>>, Teams |-> <<>>]

WriteInputs == {Nil, <<CompA>>, <<CompB>>, <<CompShape>>, <<CompNoName>>}

WriteFaults == {"none", "create", "commit"}

\* the calls of Write: every input on a sound engine, one input under each fault
WriteCalls == (WriteInputs \X {"none"}) \cup ({<<CompB>>} \X WriteFaults)

InitNames == {"I"}

InitTeams == {<<"T", "U">>}

InitRounds == {-1, 0, 2}

InitScoreElems == {"int32", "*int32"}

InitFaults == {"none", "hash", "create"}

\* the calls of Init, as <<rounds, elem, fault>>: every round count on a sound
\* engine (both readings of the slots where there are slots), one under each
\* fault
InitCalls ==
    {<<-1, "int32", "none">>, <<0, "int32", "none">>}
    \cup ({2} \X InitScoreElems \X {"none"})
    \cup ({2} \X {"int32"} \X InitFaults)

Usernames == {"u"}

Passwords == {"p", "q"}

InitPasswords == {"p"}

CredentialFaults == {"none", "hash"}

\* the data-model invariants of a Competition
Valid(c) ==
    /\ c.Name # ""
    /\ \A i \in 1..Len(c.Rounds) : c.Rounds[i] # ""
    /\ \A i \in 1..Len(c.Teams) :
          c.Teams[i].Name # "" /\ Len(c.Teams[i].Scores) = Len(c.Rounds)

----------------------------------------------------------------------------
(* The store as a state machine.  last is the last call: its operation,    *)
(* arguments, injected engine fault, results and the store before it.      *)
(* hist counts the archiving writes that returned nil and remembers        *)
(* whether a call has panicked.                                            *)

Call(op, arg, fault, err, panic, res, enc) ==
    [op |-> op, arg |-> arg, fault |-> fault, err |-> err, panic |-> panic,
     res |-> res, enc |-> enc, pre |-> db, t |-> now]

CodecIdle == [pc |-> "idle", c |-> CompA, b |-> EmptyBucket,
              werr |-> "", r |-> [err |-> "", c |-> Nil]]

\* two callers of Write and one caller of a read operation
Writers == {1, 2}

\* no transaction open: the writer lock is free, no caller has begun
ConcIdle ==
    [lock  |-> 0,
     w     |-> [i \in Writers |->
                  [pc |-> "idle", cp |-> Nil, tx0 |-> EmptyBucket, tx |-> EmptyBucket,
                   rev |-> Returned("", EmptyBucket),
                   res |-> [err |-> "", panic |-> FALSE, tx |-> EmptyBucket,
                            enc |-> NoEnc],
                   t |-> 0,
                   err |-> ""]],
     rd    |-> [pc |-> "idle", op |-> "", id |-> 0, snap |-> EmptyBucket,
                res |-> Nil],
     order |-> <<>>,
     log   |-> <<>>]

\* the PUT /competition requests being served at once
Handlers == {1, 2}

\* no request being handled, nothing passed to Notify, no commit made.  For
\* each handler: its position, its request, the status it answered (0: none),
\* and w, what its call of Write or Init did and the number of the commit
\* it made.
WebIdle ==
    [h        |-> [i \in Handlers |->
                     [pc |-> "idle", req |-> Nil, status |-> 0,
                      w |-> [op |-> "", err |-> "", panic |-> FALSE, commit |-> 0]]],
     notified |-> <<>>,
     commits  |-> 0]

MaxSubscribers == 2

MaxNotifies == 2

\* the websocket handlers that may connect, and the callers of Notify, each
\* with the id it passes
Clients == 1..MaxSubscribers

Notifiers == 1..MaxNotifies

\* NewSubscribeService: no subscribers, lastID 0, mu free, the service
\* goroutine waiting on control.  cl is each handler's position, the key
\* Subscribe gave it and the ids it took from its channel; nt each Notify
\* call's position; accepted the ids the service took from control, and
\* started the subscribers map at the start of each of those broadcasts.
SubsIdle ==
    [subscribers |-> {},
     lastID      |-> 0,
     mu          |-> "",
     svc         |-> [pc |-> "control", id |-> 0, todo |-> {}, cur |-> 0],
     cl          |-> [c \in Clients |-> [pc |-> "none", myID |-> 0, got |-> <<>>]],
     nt          |-> [k \in Notifiers |-> "idle"],
     accepted    |-> <<>>,
     started     |-> <<>>]

\* the session ids randString(22) can return, and the name of one request's
\* Check call at a time (the mutex admits one)
SessionIds == {"s1", "s2"}

\* NewMemorySessionStore(time.Hour*8), in hours
SessionDuration == 8

\* time.Sleep(time.Hour) of scavenge, in hours
ScavengePeriod == 1

\* NewMemorySessionStore: an empty map, the mutex free, the scavenger asleep.
\* clock is the time time.Now() returns.  chk is the Check call in progress
\* or last returned (n flips at every call); issued, base (when the expiry
\* of an id was last set), dead (ids Check refused after Create returned
\* them) and scav.removed (what the last sweep deleted) record what happened.
SessIdle ==
    [store  |-> [id \in SessionIds |-> Nil],
     mu     |-> "",
     clock  |-> 0,
     chk    |-> [pc |-> "idle", id |-> "", res |-> FALSE, n |-> 0],
     scav   |-> [pc |-> "sleep", now |-> 0, slept |-> 0, removed |-> {}],
     issued |-> {},
     base   |-> [id \in SessionIds |-> 0],
     dead   |-> {}]

OthersIdle ==
    /\ conc = ConcIdle
    /\ web = WebIdle
    /\ subs = SubsIdle
    /\ sess = SessIdle

Init ==
    /\ db = EmptyBucket
    /\ now = 0
    /\ last = [op |-> "New", arg |-> Nil, fault |-> "none", err |-> "",
               panic |-> FALSE, res |-> Nil, enc |-> NoEnc, pre |-> EmptyBucket,
               t |-> 0]
    /\ hist = [okArch |-> 0, panicked |-> FALSE]
    /\ codec = CodecIdle
    /\ OthersIdle

Archived(r) ==
    [okArch   |-> IF HasBucket(db, "competition") /\ r.err = "" /\ ~r.panic
                  THEN hist.okArch + 1 ELSE hist.okArch,
     panicked |-> hist.panicked \/ r.panic]

CallWrite ==
    \E cp \in WriteInputs, fault \in WriteFaults :
        /\ now < MaxClock
        /\ <<cp, fault>> \in WriteCalls
        /\ \E r \in {Write(db, cp, now, fault)} :
               /\ db' = r.db
               /\ last' = Call("Write", cp, fault, r.err, r.panic, Nil, r.enc)
               /\ hist' = Archived(r)
               /\ now' = now + 1
        /\ UNCHANGED <<codec, others>>

CallInit ==
    \E name \in InitNames, rounds \in InitRounds, teams \in InitTeams,
       elem \in InitScoreElems, username \in Usernames,
       password \in InitPasswords, fault \in InitFaults :
        /\ now < MaxClock
        /\ <<rounds, elem, fault>> \in InitCalls
        /\ \E r \in {DBInit(db, name, rounds, teams, elem, username, password,
                           now, fault)} :
               /\ db' = r.db
               /\ last' = Call("Init",
                               [name |-> name, rounds |-> rounds, teams |-> teams,
                                elem |-> elem, username |-> username,
                                password |-> password],
                               fault, r.err, r.panic, Nil, r.enc)
               /\ hist' = Archived(r)
               /\ now' = now + 1
        /\ UNCHANGED <<codec, others>>

CallUpdateCredentials ==
    \E username \in Usernames, password \in Passwords, fault \in CredentialFaults :
        /\ \E r \in {UpdateCredentials(db, username, password, fault)} :
               /\ db' = r.db
               /\ last' = Call("UpdateCredentials",
                               [username |-> username, password |-> password],
                               fault, r.err, FALSE, Nil, NoEnc)
        /\ UNCHANGED <<now, hist, codec, others>>

CallAuthenticate ==
    \E username \in Usernames \cup {"x"}, password \in Passwords :
        /\ username = "x" => password = "p"
        /\ \E r \in {Authenticate(db, username, password)} :
               last' = Call("Authenticate",
                            [username |-> username, password |-> password],
                            "none", r.err, FALSE, r.status, NoEnc)
        /\ UNCHANGED <<db, now, hist, codec, others>>

CallRead ==
    /\ \E r \in {Read(db)} :
           last' = Call("Read", Nil, "none", r.err, r.err = "panic", r.c, NoEnc)
    /\ UNCHANGED <<db, now, hist, codec, others>>

CallRevisions ==
    /\ \E r \in {Revisions(db)} :
           last' = Call("Revisions", Nil, "none", r.err, r.err = "panic", r.revs, NoEnc)
    /\ UNCHANGED <<db, now, hist, codec, others>>

CallReadRevision ==
    \E id \in -1..(MaxClock - 1) :
        /\ \E r \in {ReadRevision(db, id)} :
               last' = Call("ReadRevision", id, "none", r.err, r.err = "panic",
                            r.rev, NoEnc)
        /\ UNCHANGED <<db, now, hist, codec, others>>

Next ==
    \/ CallWrite
    \/ CallInit
    \/ CallUpdateCredentials
    \/ CallAuthenticate
    \/ CallRead
    \/ CallRevisions
    \/ CallReadRevision

Spec == Init /\ [][Next]_vars

----------------------------------------------------------------------------
(* The codec on its own: a competition drawn from a bounded set is encoded  *)
(* into an empty container, and the container is decoded.                  *)

SeqsUpTo(S, n) == UNION {[1..k -> S] : k \in 0..n}

CodecNames == {"", "A"}

CodecRoundNames == {"", "R"}

CodecScores == {Nil, <<0>>, <<-1>>}

CodecTeams == [Name : {"T"}, Scores : SeqsUpTo(CodecScores, MaxRounds)]

CodecInputs ==
    [Name : CodecNames, Rounds : SeqsUpTo(CodecRoundNames, MaxRounds),
     Teams : SeqsUpTo(CodecTeams, MaxTeams)]

InitCodec ==
    /\ db = EmptyBucket
    /\ now = 0
    /\ last = [op |-> "New", arg |-> Nil, fault |-> "none", err |-> "",
               panic |-> FALSE, res |-> Nil, enc |-> NoEnc, pre |-> EmptyBucket,
               t |-> 0]
    /\ hist = [okArch |-> 0, panicked |-> FALSE]
    /\ \E c \in CodecInputs :
          codec = [pc |-> "new", c |-> c, b |-> EmptyBucket, werr |-> "",
                   r |-> [err |-> "", c |-> Nil]]
    /\ OthersIdle

Encode ==
    /\ codec.pc = "new"
    /\ \E w \in {writeCompetition(codec.b, <<codec.c>>)} :
          codec' = [codec EXCEPT !.pc = "encoded", !.b = w.b, !.werr = w.err]
    /\ UNCHANGED <<db, now, last, hist, others>>

Decode ==
    /\ codec.pc = "encoded"
    /\ codec' = [codec EXCEPT !.pc = "decoded", !.r = readCompetition(codec.b)]
    /\ UNCHANGED <<db, now, last, hist, others>>

NextCodec ==
    \/ Encode
    \/ Decode

SpecCodec == InitCodec /\ [][NextCodec]_vars

\* the container b with the value under the keys of path replaced by v, or
\* with the entry under path removed; path leads through nested buckets
RECURSIVE PutAt(_, _, _)
PutAt(b, path, v) ==
    IF Len(path) = 1 THEN Put(b, path[1], v)
    ELSE SetBucket(b, path[1], PutAt(SubOrEmpty(b, path[1]), Tail(path), v))

RECURSIVE DeleteAt(_, _)
DeleteAt(b, path) ==
    IF Len(path) = 1 THEN DeleteBucket(b, path[1])
    ELSE IF ~HasBucket(b, path[1]) THEN b
    ELSE SetBucket(b, path[1], DeleteAt(Bucket(b, path[1]), Tail(path)))

\* stored containers that no encode call produced: an encoded container with
\* one entry removed or one value replaced
Damaged(b) ==
    {DeleteAt(b, p) : p \in {<<"name">>, <<"config">>, <<"rounds">>, <<"teams">>,
                             <<"config", "rounds">>, <<"config", "teams">>,
                             <<"rounds", intToBytes(0)>>,
                             <<"teams", intToBytes(0)>>,
                             <<"teams", intToBytes(0), "name">>,
                             <<"teams", intToBytes(0), "scores">>}}
    \cup {PutAt(b, <<"name">>, ""),
          PutAt(b, <<"rounds", intToBytes(0)>>, ""),
          PutAt(b, <<"config", "rounds">>, <<0, 0>>),
          PutAt(b, <<"config", "teams">>, <<0, 0>>),
          PutAt(b, <<"config", "rounds">>, intToBytes(-1)),
          PutAt(b, <<"config", "teams">>, intToBytes(-1)),
          PutAt(b, <<"config", "teams">>, intToBytes(MaxTeams + 1)),
          PutAt(b, <<"teams", intToBytes(0), "scores", intToBytes(0)>>, <<1>>)}

\* the stored container is one that was not produced by encode
Damage ==
    /\ codec.pc = "encoded"
    /\ codec.werr = ""
    /\ \E d \in Damaged(codec.b) : codec' = [codec EXCEPT !.pc = "stored", !.b = d]
    /\ UNCHANGED <<db, now, last, hist, others>>

\* readCompetition on the stored container
DecodeStored ==
    /\ codec.pc = "stored"
    /\ codec' = [codec EXCEPT !.pc = "read", !.r = readCompetition(codec.b)]
    /\ UNCHANGED <<db, now, last, hist, others>>

NextDecode ==
    \/ Encode
    \/ Damage
    \/ DecodeStored

SpecDecode == InitCodec /\ [][NextDecode]_vars

----------------------------------------------------------------------------
(* Concurrent callers of the store.  db is the committed root bucket.  A   *)
(* caller of Write opens the writable transaction (bolt admits one at a    *)
(* time), works on its own copy of the root, and its deferred function     *)
(* commits the copy or drops it.  A caller of Read, Revisions or           *)
(* ReadRevision opens a read-only transaction, which sees the root that    *)
(* was committed when it began.                                            *)

\* db.Begin(true) returns only while no other writable transaction is open
BeginWritableUnlocked(lock) == TRUE

BeginWritable(lock) == lock = 0

\* the root a read-only transaction sees, given the committed root
BeginReadOnlyDirty(c, committed) ==
    IF c.lock # 0 THEN c.w[c.lock].tx ELSE committed

BeginReadOnly(c, committed) == committed

\* the stores the callers start on, each holding a live document: one made
\* by Init, one made by a first Write alone (no credentials), one with a
\* revision already
StoreInitialized ==
    DBInit(EmptyBucket, "I", 0, <<"T", "U">>, "int32", "u", "p", 0, "none").db

StoreWrittenOnly == Write(EmptyBucket, <<CompA>>, 0, "none").db

StoreRevised == Write(StoreInitialized, <<CompA>>, 1, "none").db

ConcStores == {StoreInitialized, StoreWrittenOnly, StoreRevised}

ConcInputs == {<<CompA>>, <<CompB>>}

ReadOps == {"Read", "Revisions", "ReadRevision"}

\* what a read operation returns on the root its transaction sees
Observe(op, id, tx) ==
    IF op = "Read" THEN Read(tx)
    ELSE IF op = "Revisions" THEN Revisions(tx)
    ELSE ReadRevision(tx, id)

InitConc ==
    /\ db \in ConcStores
    /\ now = 2
    /\ last = [op |-> "New", arg |-> Nil, fault |-> "none", err |-> "",
               panic |-> FALSE, res |-> Nil, enc |-> NoEnc, pre |-> EmptyBucket,
               t |-> 0]
    /\ hist = [okArch |-> 0, panicked |-> FALSE]
    /\ codec = CodecIdle
    /\ conc = [ConcIdle EXCEPT !.log = <<db>>]
    /\ web = WebIdle
    /\ subs = SubsIdle
    /\ sess = SessIdle

\* tx, err := db.Begin(true)
WBegin(i) ==
    /\ conc.w[i].pc = "idle"
    /\ BeginWritable(conc.lock)
    /\ \E cp \in ConcInputs :
          conc' = [conc EXCEPT !.lock = i,
                               !.w[i].pc = "begun",
                               !.w[i].cp = cp,
                               !.w[i].tx0 = db,
                               !.w[i].tx = db]
    /\ UNCHANGED <<db, now, last, hist, codec, web, subs, sess>>

\* err = db.writeRevision(tx)
WArchive(i) ==
    /\ conc.w[i].pc = "begun"
    /\ \E r \in {writeRevision(conc.w[i].tx)} :
          conc' = [conc EXCEPT !.w[i].pc = "archived",
                               !.w[i].rev = r,
                               !.w[i].tx = r.tx]
    /\ UNCHANGED <<db, now, last, hist, codec, web, subs, sess>>

\* the archive step failed: return &Error{..."Couldn't write Revision"}
WFail(i) ==
    /\ conc.w[i].pc = "archived"
    /\ conc.w[i].rev.err # ""
    /\ \E r \in {WriteCompetitionBucket(conc.w[i].rev, conc.w[i].cp, now, "none")} :
          conc' = [conc EXCEPT !.w[i].pc = "written", !.w[i].res = r, !.w[i].tx = r.tx]
    /\ UNCHANGED <<db, now, last, hist, codec, web, subs, sess>>

\* err = tx.DeleteBucket("competition")
WClear(i) ==
    /\ conc.w[i].pc = "archived"
    /\ conc.w[i].rev.err = ""
    /\ conc' = [conc EXCEPT !.w[i].pc = "cleared",
                            !.w[i].tx = DeleteBucket(conc.w[i].tx, "competition")]
    /\ UNCHANGED <<db, now, last, hist, codec, web, subs, sess>>

\* time.Now(), the new competition bucket, writeCompetition
WStore(i) ==
    /\ conc.w[i].pc = "cleared"
    /\ \E r \in {WriteCompetitionBucket(conc.w[i].rev, conc.w[i].cp, now, "none")} :
          conc' = [conc EXCEPT !.w[i].pc = "written", !.w[i].res = r, !.w[i].tx = r.tx,
                               !.w[i].t = now]
    /\ now' = now + 1
    /\ UNCHANGED <<db, last, hist, codec, web, subs, sess>>

\* the deferred function: tx.Rollback() or tx.Commit(); the lock is released
WEnd(i) ==
    /\ conc.w[i].pc = "written"
    /\ \E d \in {deferWrite(db, conc.w[i].res, "none")} :
          /\ db' = d.db
          /\ conc' = [conc EXCEPT !.lock = IF conc.lock = i THEN 0 ELSE conc.lock,
                                  !.w[i].pc = "done",
                                  !.w[i].err = d.err,
                                  !.order = Append(conc.order, i),
                                  !.log = IF d.err = "" THEN Append(conc.log, d.db)
                                          ELSE conc.log]
    /\ UNCHANGED <<now, last, hist, codec, web, subs, sess>>

\* tx, err := db.Begin(false)
RBegin ==
    /\ conc.rd.pc = "idle"
    /\ \E op \in ReadOps, id \in {0, 1} :
          /\ op # "ReadRevision" => id = 0
          /\ conc' = [conc EXCEPT !.rd = [pc |-> "begun", op |-> op, id |-> id,
                                          snap |-> BeginReadOnly(conc, db),
                                          res |-> Nil]]
    /\ UNCHANGED <<db, now, last, hist, codec, web, subs, sess>>

\* the body of the read operation and its tx.Rollback()
REnd ==
    /\ conc.rd.pc = "begun"
    /\ conc' = [conc EXCEPT !.rd.pc = "done",
                            !.rd.res = Observe(conc.rd.op, conc.rd.id, conc.rd.snap)]
    /\ UNCHANGED <<db, now, last, hist, codec, web, subs, sess>>

NextConc ==
    \/ \E i \in Writers : WBegin(i)
    \/ \E i \in Writers : WArchive(i)
    \/ \E i \in Writers : WFail(i)
    \/ \E i \in Writers : WClear(i)
    \/ \E i \in Writers : WStore(i)
    \/ \E i \in Writers : WEnd(i)
    \/ RBegin
    \/ REnd

SpecConc == InitConc /\ [][NextConc]_vars

----------------------------------------------------------------------------

(***************************************************************************)
(* The session store (api/session.go): Create, Check and the scavenger,    *)
(* with the clock advancing between any two steps.                         *)
(***************************************************************************)

MaxTime == 10

\* t.Expires.Before(now) with a margin of one duration
BeforeWithin(exp, t) == exp < t + SessionDuration

\* t.Expires.Before(now)
Before(exp, t) == exp < t

\* s.Expires.After(time.Now())
After(exp, t) == exp > t

\* time.Now().Add(m.duration)
Expiry(t) == t + SessionDuration

\* s, ok := m.store[sessionID]; ok && s.Expires.After(now)
CheckAlive(store, id, t) ==
    /\ id \in SessionIds
    /\ store[id] # Nil
    /\ After(store[id][1], t)

\* delete(m.store, sessionID): a no-op for an id that is not in the map
DeleteSession(store, id) ==
    [k \in SessionIds |-> IF k = id THEN Nil ELSE store[k]]

\* the ids the loop of scavenge deletes, given the time it read
Stale(store, t) == {id \in SessionIds : store[id] # Nil /\ Before(store[id][1], t)}

\* the ids a caller may hand to Check: those Create can return and one it never does
CheckedIds == SessionIds \cup {"zz"}

InitSess ==
    /\ db = EmptyBucket
    /\ now = 0
    /\ last = [op |-> "New", arg |-> Nil, fault |-> "none", err |-> "",
               panic |-> FALSE, res |-> Nil, enc |-> NoEnc, pre |-> EmptyBucket,
               t |-> 0]
    /\ hist = [okArch |-> 0, panicked |-> FALSE]
    /\ codec = CodecIdle
    /\ OthersIdle

\* the clock advances
Tick ==
    /\ sess.clock < MaxTime
    /\ sess' = [sess EXCEPT !.clock = sess.clock + 1]
    /\ UNCHANGED <<db, now, last, hist, codec, conc, web, subs>>

\* Create: a new id, stored under the mutex with Expires = time.Now() + duration
Create ==
    /\ sess.mu = ""
    /\ \E id \in SessionIds \ sess.issued :
          sess' = [sess EXCEPT !.store[id] = <<Expiry(sess.clock)>>,
                               !.issued = sess.issued \cup {id},
                               !.base[id] = sess.clock]
    /\ UNCHANGED <<db, now, last, hist, codec, conc, web, subs>>

\* Check, the session is there and Expires.After(time.Now()): the mutex is
\* held until the second time.Now() is read
CheckValid(id) ==
    /\ sess.mu = ""
    /\ sess.chk.pc \in {"idle", "done"}
    /\ CheckAlive(sess.store, id, sess.clock)
    /\ sess' = [sess EXCEPT !.mu = "Check",
                            !.chk = [pc |-> "refresh", id |-> id, res |-> TRUE,
                                     n |-> 1 - sess.chk.n]]
    /\ UNCHANGED <<db, now, last, hist, codec, conc, web, subs>>

\* s.Expires = time.Now().Add(m.duration); return true
CheckRefresh ==
    /\ sess.chk.pc = "refresh"
    /\ sess' = [sess EXCEPT !.mu = "",
                            !.store[sess.chk.id] = <<Expiry(sess.clock)>>,
                            !.base[sess.chk.id] = sess.clock,
                            !.chk.pc = "done"]
    /\ UNCHANGED <<db, now, last, hist, codec, conc, web, subs>>

\* Check, the session is absent or not After(now): delete it, return false
CheckInvalid(id) ==
    /\ sess.mu = ""
    /\ sess.chk.pc \in {"idle", "done"}
    /\ ~CheckAlive(sess.store, id, sess.clock)
    /\ sess' = [sess EXCEPT !.store = IF id \in SessionIds
                                      THEN DeleteSession(sess.store, id)
                                      ELSE sess.store,
                            !.dead = IF id \in sess.issued THEN sess.dead \cup {id}
                                     ELSE sess.dead,
                            !.chk = [pc |-> "done", id |-> id, res |-> FALSE,
                                     n |-> 1 - sess.chk.n]]
    /\ UNCHANGED <<db, now, last, hist, codec, conc, web, subs>>

\* scavenge: time.Sleep(time.Hour) is over; now := time.Now(), before the lock
ScavengeWake ==
    /\ sess.scav.pc = "sleep"
    /\ sess.clock >= sess.scav.slept + ScavengePeriod
    /\ sess' = [sess EXCEPT !.scav.pc = "woke", !.scav.now = sess.clock]
    /\ UNCHANGED <<db, now, last, hist, codec, conc, web, subs>>

\* scavenge: the loop over the map under the mutex
ScavengeSweep ==
    /\ sess.scav.pc = "woke"
    /\ sess.mu = ""
    /\ sess' = [sess EXCEPT
                  !.store = [id \in SessionIds |->
                               IF id \in Stale(sess.store, sess.scav.now) THEN Nil
                               ELSE sess.store[id]],
                  !.scav = [pc |-> "sleep", now |-> 0, slept |-> sess.clock,
                            removed |-> Stale(sess.store, sess.scav.now)]]
    /\ UNCHANGED <<db, now, last, hist, codec, conc, web, subs>>

NextSess ==
    \/ Tick
    \/ Create
    \/ \E id \in CheckedIds : CheckValid(id)
    \/ CheckRefresh
    \/ \E id \in CheckedIds : CheckInvalid(id)
    \/ ScavengeWake
    \/ ScavengeSweep

SpecSess == InitSess /\ [][NextSess]_vars

(***************************************************************************)
(* The subscribe service (part_001) and the websocket handlers that use    *)
(* it (subscribeCompetition).  Channels are unbuffered: a send and its     *)
(* receive are one step, enabled when both sides are at it.                *)
(***************************************************************************)

InitSubs ==
    /\ db = EmptyBucket
    /\ now = 0
    /\ last = [op |-> "New", arg |-> Nil, fault |-> "none", err |-> "",
               panic |-> FALSE, res |-> Nil, enc |-> NoEnc, pre |-> EmptyBucket,
               t |-> 0]
    /\ hist = [okArch |-> 0, panicked |-> FALSE]
    /\ codec = CodecIdle
    /\ OthersIdle

\* myID, sub := s.Subscribe(): under mu, lastID++ and a new channel in the map
Subscribe(c) ==
    /\ subs.cl[c].pc = "none"
    /\ subs.mu = ""
    /\ subs' = [subs EXCEPT !.lastID = subs.lastID + 1,
                            !.subscribers = subs.subscribers \cup {subs.lastID + 1},
                            !.cl[c].pc = "connect",
                            !.cl[c].myID = subs.lastID + 1]
    /\ UNCHANGED <<db, now, last, hist, codec, conc, web, sess>>

\* conn.WriteJSON of the connect message or of an update: it succeeds and the
\* handler goes (back) to its receive, or it fails and the handler calls
\* Unsubscribe
WriteJSON(c) ==
    /\ subs.cl[c].pc \in {"connect", "update"}
    /\ \E ok \in BOOLEAN :
          subs' = [subs EXCEPT !.cl[c].pc = IF ok THEN "receive" ELSE "unsubscribe"]
    /\ UNCHANGED <<db, now, last, hist, codec, conc, web, sess>>

\* s.Unsubscribe(myID): once mu is free, delete from the map and return
Unsubscribe(c) ==
    /\ subs.cl[c].pc = "unsubscribe"
    /\ subs.mu = ""
    /\ subs' = [subs EXCEPT !.subscribers = subs.subscribers \ {subs.cl[c].myID},
                            !.cl[c].pc = "returned"]
    /\ UNCHANGED <<db, now, last, hist, codec, conc, web, sess>>

\* a caller enters Notify(k): s.control <- k
Notify(k) ==
    /\ subs.nt[k] = "idle"
    /\ subs' = [subs EXCEPT !.nt[k] = "control"]
    /\ UNCHANGED <<db, now, last, hist, codec, conc, web, sess>>

\* id := <-s.control: the service takes the id of one blocked Notify, which returns
ServiceControl ==
    /\ subs.svc.pc = "control"
    /\ \E k \in Notifiers :
          /\ subs.nt[k] = "control"
          /\ subs' = [subs EXCEPT !.nt[k] = "returned",
                                  !.svc.pc = "lock",
                                  !.svc.id = k,
                                  !.accepted = Append(subs.accepted, k)]
    /\ UNCHANGED <<db, now, last, hist, codec, conc, web, sess>>

\* s.mu.Lock() and the start of the range over the map
ServiceLock ==
    /\ subs.svc.pc = "lock"
    /\ subs.mu = ""
    /\ subs' = [subs EXCEPT !.mu = "service",
                            !.svc.pc = "range",
                            !.svc.todo = subs.subscribers,
                            !.started = Append(subs.started, subs.subscribers)]
    /\ UNCHANGED <<db, now, last, hist, codec, conc, web, sess>>

\* the range reaches a subscriber, in the order the map gives: sub <- id begins
ServiceNext ==
    /\ subs.svc.pc = "range"
    /\ \E m \in subs.svc.todo :
          subs' = [subs EXCEPT !.svc.pc = "send", !.svc.cur = m]
    /\ UNCHANGED <<db, now, last, hist, codec, conc, web, sess>>

\* sub <- id meets id := <-sub of the handler that owns the channel
Deliver(c) ==
    /\ subs.svc.pc = "send"
    /\ subs.cl[c].myID = subs.svc.cur
    /\ subs.cl[c].pc = "receive"
    /\ subs' = [subs EXCEPT !.svc.pc = "range",
                            !.svc.todo = subs.svc.todo \ {subs.svc.cur},
                            !.svc.cur = 0,
                            !.cl[c].pc = "update",
                            !.cl[c].got = Append(subs.cl[c].got, subs.svc.id)]
    /\ UNCHANGED <<db, now, last, hist, codec, conc, web, sess>>

\* the range is over: s.mu.Unlock(), back to the receive on control
ServiceUnlock ==
    /\ subs.svc.pc = "range"
    /\ subs.svc.todo = {}
    /\ subs' = [subs EXCEPT !.mu = "", !.svc.pc = "control", !.svc.id = 0]
    /\ UNCHANGED <<db, now, last, hist, codec, conc, web, sess>>

NextSubs ==
    \/ \E c \in Clients : Subscribe(c)
    \/ \E c \in Clients : WriteJSON(c)
    \/ \E c \in Clients : Unsubscribe(c)
    \/ \E k \in Notifiers : Notify(k)
    \/ ServiceControl
    \/ ServiceLock
    \/ ServiceNext
    \/ \E c \in Clients : Deliver(c)
    \/ ServiceUnlock

SpecSubs == InitSubs /\ [][NextSubs]_vars

(***************************************************************************)
(* The PUT /competition handler (putCompetition, createCompetition,        *)
(* checkJSON, checkAuth), served for several requests at once over the     *)
(* store and the session store.                                            *)
(***************************************************************************)

\* request bodies, as the JSON members they hold, and one that is not JSON
BodyPutA == [competition |-> CompA, id |-> 7]

BodyPutShape == [competition |-> CompShape, id |-> 8]

BodyNoCompetition == [id |-> 9]

BodyCreate == [name |-> "I", rounds |-> 0, teams |-> <<"T", "U">>,
               username |-> "u", password |-> "p"]

BodyMalformed == [malformed |-> TRUE]

\* Authorization headers: absent, not matching authRegexp, and SESSION id=...
\* with an id the store holds or one it does not
AuthNone == [kind |-> "none", id |-> ""]

AuthBad == [kind |-> "bad", id |-> ""]

AuthSession(id) == [kind |-> "session", id |-> id]

\* the requests served: a sound one, and ones with one thing wrong each
PutRequests ==
    {[ctype |-> "application/json", auth |-> AuthSession("s1"), body |-> b] :
        b \in {BodyPutA, BodyPutShape, BodyNoCompetition, BodyMalformed}}
    \cup {[ctype |-> "application/json", auth |-> a, body |-> b] :
            a \in {AuthNone, AuthBad, AuthSession("zz")}, b \in {BodyPutA, BodyCreate}}
    \cup {[ctype |-> "text/plain", auth |-> AuthSession("s1"), body |-> BodyPutA]}

\* checkJSON
checkJSON(req) == req.ctype = "application/json"

\* dec.Decode(req) into a putRequest: members absent from the body stay zero
DecodePut(body) ==
    IF body = BodyMalformed THEN [err |-> "decode", Competition |-> Nil, ID |-> 0]
    ELSE [err |-> "",
          Competition |-> IF "competition" \in DOMAIN body
                          THEN <<body.competition>> ELSE Nil,
          ID |-> IF "id" \in DOMAIN body THEN body.id ELSE 0]

\* dec.Decode(c) into a createRequest
DecodeCreate(body) ==
    IF body = BodyMalformed
    THEN [err |-> "decode", Name |-> "", Rounds |-> 0, Teams |-> <<>>,
          Username |-> "", Password |-> ""]
    ELSE [err |-> "",
          Name |-> IF "name" \in DOMAIN body THEN body.name ELSE "",
          Rounds |-> IF "rounds" \in DOMAIN body THEN body.rounds ELSE 0,
          Teams |-> IF "teams" \in DOMAIN body THEN body.teams ELSE <<>>,
          Username |-> IF "username" \in DOMAIN body THEN body.username ELSE "",
          Password |-> IF "password" \in DOMAIN body THEN body.password ELSE ""]

\* if err != nil after d.Write, taken as never true
WriteFailedNever(r) == FALSE

\* if err != nil after d.Write
WriteFailed(r) == r.err # ""

\* the answer of a handler that has finished
Answer(hd, status) == [hd EXCEPT !.pc = "done", !.status = status]

\* the stores the server starts on: empty, made by Init, written by Write alone
WebStores == {EmptyBucket, StoreInitialized, StoreWrittenOnly}

\* the server starts on one of these stores; a session from an earlier login
\* exists only where a competition does (no login succeeds on an empty store)
InitHTTP ==
    /\ db \in WebStores
    /\ now = 1
    /\ last = [op |-> "New", arg |-> Nil, fault |-> "none", err |-> "",
               panic |-> FALSE, res |-> Nil, enc |-> NoEnc, pre |-> EmptyBucket,
               t |-> 0]
    /\ hist = [okArch |-> 0, panicked |-> FALSE]
    /\ codec = CodecIdle
    /\ conc = ConcIdle
    /\ web = WebIdle
    /\ subs = SubsIdle
    /\ sess = IF db = EmptyBucket
              THEN SessIdle
              ELSE [SessIdle EXCEPT !.store["s1"] = <<Expiry(0)>>, !.issued = {"s1"}]

\* a request arrives: checkJSON, then oldComp, err := d.Read()
Serve(i) ==
    /\ web.h[i].pc = "idle"
    /\ \E req \in PutRequests :
          web' = [web EXCEPT !.h[i] =
                    IF ~checkJSON(req)
                    THEN Answer([web.h[i] EXCEPT !.req = <<req>>], 400)
                    ELSE IF Read(db).err # ""
                    THEN Answer([web.h[i] EXCEPT !.req = <<req>>], 500)
                    ELSE [web.h[i] EXCEPT !.req = <<req>>,
                                          !.pc = IF Read(db).c = Nil THEN "create"
                                                 ELSE "checkAuth"]]
    /\ UNCHANGED <<db, now, last, hist, codec, conc, subs, sess>>

\* createCompetition: decoding failed
CreateBadRequest(i) ==
    /\ web.h[i].pc = "create"
    /\ DecodeCreate(web.h[i].req[1].body).err # ""
    /\ web' = [web EXCEPT !.h[i] = Answer(web.h[i], 400)]
    /\ UNCHANGED <<db, now, last, hist, codec, conc, subs, sess>>

\* createCompetition: d.Init, d.Read, and on success s.Create() and 201
Created(i) ==
    /\ web.h[i].pc = "create"
    /\ DecodeCreate(web.h[i].req[1].body).err = ""
    /\ \E c \in {DecodeCreate(web.h[i].req[1].body)}, elem \in InitScoreElems :
       \E r \in {DBInit(db, c.Name, c.Rounds, c.Teams, elem, c.Username,
                        c.Password, now, "none")} :
          /\ db' = r.db
          /\ now' = now + 1
          /\ IF r.panic
             THEN /\ web' = [web EXCEPT
                               !.h[i] = Answer([web.h[i] EXCEPT
                                                  !.w = [op |-> "Init", err |-> r.err,
                                                         panic |-> TRUE,
                                                         commit |-> 0]], 0)]
                  /\ sess' = sess
             ELSE IF r.err # "" \/ Read(r.db).err # ""
             THEN /\ web' = [web EXCEPT
                               !.h[i] = Answer([web.h[i] EXCEPT
                                                  !.w = [op |-> "Init", err |-> r.err,
                                                         panic |-> FALSE,
                                                         commit |-> 0]], 500)]
                  /\ sess' = sess
             ELSE /\ web' = [web EXCEPT
                               !.commits = web.commits + 1,
                               !.h[i] = Answer([web.h[i] EXCEPT
                                                  !.w = [op |-> "Init", err |-> "",
                                                         panic |-> FALSE,
                                                         commit |-> web.commits + 1]],
                                               201)]
                  /\ \E id \in SessionIds \ sess.issued :
                        sess' = [sess EXCEPT !.store[id] = <<Expiry(sess.clock)>>,
                                             !.issued = sess.issued \cup {id},
                                             !.base[id] = sess.clock]
    /\ UNCHANGED <<last, hist, codec, conc, subs>>

\* checkAuth: no header, a header that does not match, or s.Check(id) false
Unauthorized(i) ==
    /\ web.h[i].pc = "checkAuth"
    /\ \E a \in {web.h[i].req[1].auth} :
          /\ a.kind = "session" => ~CheckAlive(sess.store, a.id, sess.clock)
          /\ web' = [web EXCEPT !.h[i] = Answer(web.h[i],
                                                IF a.kind = "bad" THEN 400 ELSE 401)]
          /\ sess' = IF a.kind = "session" /\ a.id \in SessionIds
                     THEN [sess EXCEPT !.store = DeleteSession(sess.store, a.id)]
                     ELSE sess
    /\ UNCHANGED <<db, now, last, hist, codec, conc, subs>>

\* checkAuth: s.Check(id) true, which renews the session
Authorized(i) ==
    /\ web.h[i].pc = "checkAuth"
    /\ \E a \in {web.h[i].req[1].auth} :
          /\ a.kind = "session"
          /\ CheckAlive(sess.store, a.id, sess.clock)
          /\ sess' = [sess EXCEPT !.store[a.id] = <<Expiry(sess.clock)>>,
                                  !.base[a.id] = sess.clock]
    /\ web' = [web EXCEPT !.h[i].pc = "decode"]
    /\ UNCHANGED <<db, now, last, hist, codec, conc, subs>>

\* the putRequest does not decode
PutBadRequest(i) ==
    /\ web.h[i].pc = "decode"
    /\ DecodePut(web.h[i].req[1].body).err # ""
    /\ web' = [web EXCEPT !.h[i] = Answer(web.h[i], 400)]
    /\ UNCHANGED <<db, now, last, hist, codec, conc, subs, sess>>

\* err = d.Write(req.Competition): a panic ends the handler, an error is
\* answered 500, success is answered 200 and leaves Notify to be called
PutWrite(i) ==
    /\ web.h[i].pc = "decode"
    /\ DecodePut(web.h[i].req[1].body).err = ""
    /\ \E fault \in {"none", "commit"} :
       \E r \in {Write(db, DecodePut(web.h[i].req[1].body).Competition, now, fault)} :
          /\ db' = r.db
          /\ now' = now + 1
          /\ web' = IF r.panic
                    THEN [web EXCEPT
                            !.h[i] = Answer([web.h[i] EXCEPT
                                               !.w = [op |-> "Write", err |-> r.err,
                                                      panic |-> TRUE, commit |-> 0]],
                                            0)]
                    ELSE IF WriteFailed(r)
                    THEN [web EXCEPT
                            !.h[i] = Answer([web.h[i] EXCEPT
                                               !.w = [op |-> "Write", err |-> r.err,
                                                      panic |-> FALSE, commit |-> 0]],
                                            500)]
                    ELSE [web EXCEPT
                            !.commits = web.commits + 1,
                            !.h[i] = [web.h[i] EXCEPT
                                        !.pc = "Notify", !.status = 200,
                                        !.w = [op |-> "Write", err |-> r.err,
                                               panic |-> FALSE,
                                               commit |-> web.commits + 1]]]
    /\ UNCHANGED <<last, hist, codec, conc, subs, sess>>

\* sub.Notify(req.ID)
PutNotify(i) ==
    /\ web.h[i].pc = "Notify"
    /\ web' = [web EXCEPT
                 !.h[i].pc = "done",
                 !.notified = Append(web.notified,
                                     [h |-> i,
                                      id |-> DecodePut(web.h[i].req[1].body).ID,
                                      commits |-> web.commits])]
    /\ UNCHANGED <<db, now, last, hist, codec, conc, subs, sess>>

NextHTTP ==
    \/ \E i \in Handlers : Serve(i)
    \/ \E i \in Handlers : CreateBadRequest(i)
    \/ \E i \in Handlers : Created(i)
    \/ \E i \in Handlers : Unauthorized(i)
    \/ \E i \in Handlers : Authorized(i)
    \/ \E i \in Handlers : PutBadRequest(i)
    \/ \E i \in Handlers : PutWrite(i)
    \/ \E i \in Handlers : PutNotify(i)

SpecHTTP == InitHTTP /\ [][NextHTTP]_vars

----------------------------------------------------------------------------
(* Claims *)

None == [err |-> "", c |-> Nil]

NoRevisions == [err |-> "", revs |-> <<>>]

\* the store holds a live document: read() returns it
HoldsDocument(tx) == Read(tx).err = "" /\ Read(tx).c # Nil

\* every team has one score slot per round
ShapeOK(c) == \A i \in 1..Len(c.Teams) : Len(c.Teams[i].Scores) = Len(c.Rounds)

LastWrote(c) == last.op = "Write" /\ last.arg = <<c>>

\* C1 (as claimed): whenever the store holds a live document A, write(B) with a
\* valid B and no engine failure succeeds, read() then returns B, and revisions()
\* has exactly one entry more, with id previous_latest + 1 and snapshot A.
ArchiveOnWrite ==
    (/\ last.op = "Write"
     /\ last.fault = "none"
     /\ last.arg # Nil
     /\ HoldsDocument(last.pre))
    => (Valid(last.arg[1])
        => /\ last.err = ""
           /\ ~last.panic
           /\ Read(db) = [err |-> "", c |-> last.arg]
           /\ Revisions(db).err = ""
           /\ Len(Revisions(db).revs) = Len(Revisions(last.pre).revs) + 1
           /\ ReadRevision(db, Len(Revisions(last.pre).revs)).rev # Nil
           /\ ReadRevision(db, Len(Revisions(last.pre).revs)).rev[1].Competition
                = Read(last.pre).c)

\* C2 (as claimed): a write over a live document A that does not complete
\* normally (error or panic) commits nothing: read(), revisions() and the
\* revision counter are as before.
WriteAtomic ==
    (/\ last.op = "Write"
     /\ HoldsDocument(last.pre)
     /\ (last.err # "" \/ last.panic))
    => /\ Read(db) = Read(last.pre)
       /\ Revisions(db) = Revisions(last.pre)
       /\ getLatestRevision(db) = getLatestRevision(last.pre)

\* C3: as long as no call has panicked, revisions() lists exactly one revision
\* per successful write over a live document, with ids 0, 1, ..., N-1 in order.
RevisionIdsSequential ==
    ~hist.panicked
    => /\ Revisions(db).err = ""
       /\ Len(Revisions(db).revs) = hist.okArch
       /\ \A i \in 1..Len(Revisions(db).revs) : Revisions(db).revs[i].ID = i - 1

TwoRevisions ==
    /\ ~hist.panicked
    /\ hist.okArch = 2
    /\ Len(Revisions(db).revs) = 2

\* C4: a store never written reads none and lists no revisions, without error;
\* after a first write(A) read() returns A and revisions() is still empty.
FirstWriteNoArchive ==
    /\ ~HasBucket(db, "competition") => Read(db) = None /\ Revisions(db) = NoRevisions
    /\ (last.op = "Write" /\ ~HasBucket(last.pre, "competition"))
       => /\ Revisions(db) = NoRevisions
          /\ (last.arg # Nil /\ last.fault = "none")
             => (Valid(last.arg[1])
                 => last.err = "" /\ Read(db) = [err |-> "", c |-> last.arg])

FirstWriteDone ==
    /\ LastWrote(CompA)
    /\ ~HasBucket(last.pre, "competition")
    /\ last.err = ""
    /\ Read(db).c = <<CompA>>

\* C5 (as claimed): write(nil) returns without error and read() then reports
\* none.
WriteNilClears ==
    (last.op = "Write" /\ last.arg = Nil /\ last.fault = "none")
    => /\ last.err = ""
       /\ ~last.panic
       /\ Read(db) = None

\* C6: decoding the container that encoding a valid Competition into an empty
\* container produced gives the Competition back: absent scores stay absent,
\* score 0 stays a present 0.
CodecRoundTrip ==
    (codec.pc \in {"encoded", "decoded"} /\ Valid(codec.c))
    => /\ codec.werr = ""
       /\ codec.pc = "decoded" => codec.r = [err |-> "", c |-> <<codec.c>>]

MixedScoresDecoded ==
    /\ codec.pc = "decoded"
    /\ Valid(codec.c)
    /\ \E i \in 1..Len(codec.c.Teams) :
          /\ \E k \in 1..Len(codec.c.Rounds) : codec.c.Teams[i].Scores[k] = Nil
          /\ \E k \in 1..Len(codec.c.Rounds) : codec.c.Teams[i].Scores[k] = <<0>>
    /\ codec.r.c = <<codec.c>>

RevisionsImmutable ==
    LET revs == Revisions(db).revs
    IN  \A i \in 0..now :
            LET before == ReadRevision(last.pre, i)
            IN  before.rev # Nil
                => /\ ReadRevision(db, i) = before
                   /\ \E k \in 1..Len(revs) : revs[k].ID = i

RevisionKeptAcrossWrite ==
    /\ ReadRevision(db, 0).rev # Nil
    /\ ReadRevision(db, 1).rev # Nil
    /\ ReadRevision(last.pre, 0) = ReadRevision(db, 0)
    /\ ReadRevision(last.pre, 1).rev = Nil
    /\ Read(db).c # ReadRevision(db, 0).rev[1].Competition

ExpectedRoundNames == <<"Round 1", "Round 2", "Round 3">>

\* C9 (as claimed): initialize on an empty store yields the named document with
\* rounds "Round 1" .. "Round n", one team per name in order, every score slot
\* unscored, and the credentials then authenticate.
InitializeYields ==
    (/\ last.op = "Init"
     /\ last.fault = "none"
     /\ ~HasBucket(last.pre, "competition"))
    => (last.arg.rounds >= 0
        => /\ last.err = ""
           /\ Read(db) =
                [err |-> "",
                 c |-> <<[Name   |-> last.arg.name,
                          Rounds |-> SubSeq(ExpectedRoundNames, 1, last.arg.rounds),
                          Teams  |-> [i \in 1..Len(last.arg.teams) |->
                                         [Name   |-> last.arg.teams[i],
                                          Scores |-> [k \in 1..last.arg.rounds
                                                          |-> Nil]]]]>>]
           /\ Authenticate(db, last.arg.username, last.arg.password).status)

\* C10: when initialize returns an error, read() and revisions() return what
\* they returned before the call.
InitFailureLeavesDocument ==
    (last.op = "Init" /\ last.err # "")
    => /\ Read(db) = Read(last.pre)
       /\ Revisions(db) = Revisions(last.pre)

InitFailedOverDocument ==
    /\ last.op = "Init"
    /\ last.err # ""
    /\ last.fault = "create"
    /\ HoldsDocument(last.pre)
    /\ Revisions(last.pre).revs # <<>>

\* the username and hash the store holds (nil where nothing is stored)
StoredUsername(tx) == Get(SubOrEmpty(tx, "config"), "username")

StoredHash(tx) == Get(SubOrEmpty(tx, "config"), "hash")

\* C11 (as claimed): authenticate returns no error, and true exactly when the
\* stored username equals the one given and the stored hash verifies the
\* password; on a store that never had credentials it returns false.
AuthenticateDecides ==
    last.op = "Authenticate"
    => /\ last.err = ""
       /\ last.res = (/\ StoredUsername(db) = <<last.arg.username>>
                      /\ CompareHashAndPassword(StoredHash(db), last.arg.password))

\* the revision counter as stored: config.current_revision (nil when absent)
StoredCounter(tx) == Get(SubOrEmpty(tx, "config"), "current_revision")

\* C12: a call of update_credentials, successful or failed, leaves read(),
\* revisions(), read_revision(i) for every i and the stored revision counter
\* as they were.
CredentialIsolation ==
    last.op = "UpdateCredentials"
    => /\ Read(db) = Read(last.pre)
       /\ Revisions(db) = Revisions(last.pre)
       /\ \A i \in -1..MaxClock : ReadRevision(db, i) = ReadRevision(last.pre, i)
       /\ StoredCounter(db) = StoredCounter(last.pre)

CredentialsReplacedOverRevisions ==
    /\ last.op = "UpdateCredentials"
    /\ last.err = ""
    /\ db # last.pre
    /\ Revisions(db).revs # <<>>
    /\ StoredCounter(db) # Nil

\* ids asked of read_revision: below the first, the first ones, above the
\* latest, and the ends of the int32 range
MinInt32 == (-2147483647) - 1

MaxInt32 == 2147483647

RevisionIdsAsked == (-1..MaxClock) \cup {MinInt32, MaxInt32}

\* the entries of a revisions() result under id, as a set (empty: not listed)
Listed(revs, id) == {revs[k] : k \in {j \in 1..Len(revs) : revs[j].ID = id}}

\* C13: read_revision(id) returns, without error, the snapshot with its
\* competition when revisions() lists id and none when it does not, for ids
\* below, within and above the range; a call of read_revision, read,
\* revisions or authenticate leaves the store and its counter as they were.
ReadRevisionTotal ==
    /\ \A id \in RevisionIdsAsked :
          LET r == ReadRevision(db, id)
              listed == Listed(Revisions(db).revs, id)
          IN  /\ r.err = ""
              /\ listed = {} => r.rev = Nil
              /\ \A e \in listed :
                    /\ r.rev # Nil
                    /\ r.rev[1].ID = id
                    /\ r.rev[1].Timestamp = e.Timestamp
                    /\ r.rev[1].Competition # Nil
                    /\ Valid(r.rev[1].Competition[1])
    /\ last.op \in {"ReadRevision", "Read", "Revisions", "Authenticate"}
       => db = last.pre /\ StoredCounter(db) = StoredCounter(last.pre)
    /\ last.op = "ReadRevision" => last.res = ReadRevision(last.pre, last.arg).rev

RevisionReadAndMissed ==
    /\ last.op = "ReadRevision"
    /\ last.arg = 0
    /\ last.res # Nil
    /\ last.res[1].Competition = <<CompA>>
    /\ ReadRevision(db, -1).rev = Nil
    /\ ReadRevision(db, 1).rev = Nil
    /\ ReadRevision(db, MinInt32).rev = Nil

\* the last call, a Write or an Init, created a revision
RevisionCreated ==
    /\ last.op \in {"Write", "Init"}
    /\ Revisions(db).err = ""
    /\ Len(Revisions(db).revs) = Len(Revisions(last.pre).revs) + 1

\* the id of the revision the last call created
CreatedId == Len(Revisions(last.pre).revs)

\* C17 (as claimed): the timestamp revisions() and read_revision(id) report for
\* the revision a write created is the time of that write, the instant that
\* became the new live document's last_modified.
RevisionStampedAtDisplacement ==
    RevisionCreated
    => /\ Revisions(db).revs[CreatedId + 1].Timestamp = last.t
       /\ ReadRevision(db, CreatedId).rev[1].Timestamp = last.t
       /\ LastModified(db) = [err |-> "", t |-> last.t]

\* C17 (amended): that timestamp is the last_modified of the displaced
\* document, the time at which the displaced document was itself written; the
\* time of the displacing write is the new live document's last_modified.
RevisionStampedAsDisplaced ==
    RevisionCreated
    => /\ LastModified(last.pre).err = ""
       /\ Revisions(db).revs[CreatedId + 1].ID = CreatedId
       /\ Revisions(db).revs[CreatedId + 1].Timestamp = LastModified(last.pre).t
       /\ ReadRevision(db, CreatedId).rev # Nil
       /\ ReadRevision(db, CreatedId).rev[1].Timestamp = LastModified(last.pre).t
       /\ LastModified(db) = [err |-> "", t |-> last.t]

RevisionOlderThanItsWrite ==
    /\ RevisionCreated
    /\ LastWrote(CompB)
    /\ last.err = ""
    /\ CreatedId = 1
    /\ ReadRevision(db, 1).rev[1].Timestamp < last.t
    /\ ReadRevision(db, 0).rev[1].Timestamp < ReadRevision(db, 1).rev[1].Timestamp

\* both callers of Write have returned
BothWritten == \A i \in Writers : conc.w[i].pc = "done"

\* C14 (as claimed): two concurrent write calls on a store holding a live
\* document both archive: the snapshots are kept under the two ids after the
\* previous latest, the first is the document that was live, the second the
\* document the first-committing write wrote.
ConcurrentWritesArchiveBoth ==
    BothWritten
    => LET n0 == Len(Revisions(conc.log[1]).revs)
       IN  /\ \A i \in Writers : conc.w[i].err = ""
           /\ Revisions(db).err = ""
           /\ Len(Revisions(db).revs) = n0 + 2
           /\ Revisions(db).revs[n0 + 1].ID = n0
           /\ Revisions(db).revs[n0 + 2].ID = n0 + 1
           /\ ReadRevision(db, n0).rev # Nil
           /\ ReadRevision(db, n0).rev[1].Competition = Read(conc.log[1]).c
           /\ ReadRevision(db, n0 + 1).rev # Nil
           /\ ReadRevision(db, n0 + 1).rev[1].Competition = conc.w[conc.order[1]].cp

\* the committed roots, oldest first, that a reader may have begun on
Committed == {conc.log[k] : k \in 1..Len(conc.log)}

\* a writer holds an open transaction whose archive step went through
InFlight(i) ==
    /\ conc.w[i].pc \in {"archived", "cleared", "written"}
    /\ conc.w[i].rev.err = ""

\* C15: a Read, Revisions or ReadRevision that ran while Write calls were in
\* progress returns, without error, exactly what it returns on one committed
\* root (the one before or the one after a write), and a Read returns a
\* document: never the cleared or half-written root of an open transaction.
NoTornReads ==
    conc.rd.pc = "done"
    => /\ conc.rd.res.err = ""
       /\ conc.rd.snap \in Committed
       /\ \E tx \in Committed : conc.rd.res = Observe(conc.rd.op, conc.rd.id, tx)
       /\ conc.rd.op = "Read" => conc.rd.res.c # Nil

\* a read began and ended while a writer had archived and cleared the live
\* document in its open transaction
ReadDuringWrite ==
    /\ conc.rd.pc = "done"
    /\ conc.rd.op = "Read"
    /\ \E i \in Writers :
          /\ InFlight(i)
          /\ conc.w[i].pc = "cleared"
          /\ conc.rd.snap = conc.w[i].tx0
          /\ conc.rd.res.c = Read(conc.w[i].tx0).c

\* the bucket of revision id in root tx (empty when absent)
RevisionBucket(tx, id) == SubOrEmpty(SubOrEmpty(tx, "revisions"), intToBytes(id))

\* the bytes under config.last_modified of the live document in root tx
LiveStamp(tx) == Get(SubOrEmpty(SubOrEmpty(tx, "competition"), "config"), "last_modified")

\* the id writeRevision gives the snapshot it makes of the root tx0
ArchiveId(tx0) == getLatestRevision(tx0).i + 1

\* the time at which the live document of the root tx0 was written: the
\* time.Now() of the Write call that committed tx0, or the time of the call
\* that made the starting store
StampedAt(tx0) ==
    IF \E j \in Writers : conc.w[j].pc = "done" /\ conc.w[j].err = ""
                          /\ conc.w[j].res.tx = tx0
    THEN conc.w[CHOOSE j \in Writers : conc.w[j].pc = "done" /\ conc.w[j].err = ""
                                       /\ conc.w[j].res.tx = tx0].t
    ELSE IF tx0 = StoreRevised THEN 1 ELSE 0

\* the snapshot of the document of tx0 is held complete in root tx under
\* ArchiveId(tx0), with the bytes of the document's last_modified, and the
\* counter names it
Archived20(tx0, tx) ==
    /\ HasBucket(SubOrEmpty(tx, "revisions"), intToBytes(ArchiveId(tx0)))
    /\ LiveStamp(tx0) # Nil
    /\ Get(SubOrEmpty(RevisionBucket(tx, ArchiveId(tx0)), "config"), "last_modified")
         = LiveStamp(tx0)
    /\ LiveStamp(tx0) = <<MarshalBinary(StampedAt(tx0))>>
    /\ readCompetition(SubOrEmpty(RevisionBucket(tx, ArchiveId(tx0)), "competition"))
         = readCompetition(Bucket(tx0, "competition"))
    /\ StoredCounter(tx) = <<intToBytes(ArchiveId(tx0))>>
    /\ StoredCounter(tx0) # StoredCounter(tx)

\* C20: when the archive step of Write has returned without error, the open
\* transaction holds the revision under the next id with config.last_modified
\* byte for byte the value stamped on the live document when it was written,
\* a full snapshot of that document and the advanced counter, while the live
\* container is still untouched; the committed store is unchanged until the
\* transaction ends, and a committed Write publishes the revision and the new
\* document together.
ArchiveCopiesStampFirst ==
    \A i \in Writers :
       /\ InFlight(i) /\ HasBucket(conc.w[i].tx0, "competition")
          => /\ Archived20(conc.w[i].tx0, conc.w[i].tx)
             /\ db = conc.w[i].tx0
             /\ conc.w[i].pc = "archived"
                => Bucket(conc.w[i].tx, "competition")
                     = Bucket(conc.w[i].tx0, "competition")
       /\ conc.w[i].pc = "done" /\ conc.w[i].err = ""
          => /\ Archived20(conc.w[i].tx0, conc.w[i].res.tx)
             /\ conc.w[i].res.tx \in Committed
             /\ Read(conc.w[i].res.tx).c = conc.w[i].cp

\* the second of two committed writes has archived the document of the first,
\* stamped by the first at a time after the store was made
SecondWriteArchivedFirst ==
    /\ Len(conc.log) = 3
    /\ \E i \in Writers :
          /\ conc.w[i].pc = "done" /\ conc.w[i].err = ""
          /\ conc.w[i].tx0 = conc.log[2]
          /\ StampedAt(conc.w[i].tx0) >= 2
          /\ Archived20(conc.w[i].tx0, db)

\* a Check call was entered in this step
CheckCalled == sess'.chk.n # sess.chk.n

\* C19: Check returns true exactly for an id Create returned with less than
\* the duration elapsed since its expiry was last set (by Create or by the
\* last Check that returned true); a true result leaves Expires at the time
\* read during the call plus the duration; a false result leaves no session
\* under the id, and no later Check of that id returns true; the scavenger
\* removes only sessions that Check would refuse at the time of the sweep.
SessionSlidingTTL ==
    /\ [](\A id \in sess.dead : sess.store[id] = Nil)
    /\ [][/\ CheckCalled
             => /\ sess'.chk.res
                     = (/\ sess'.chk.id \in sess.issued
                        /\ sess.clock - sess.base[sess'.chk.id] < SessionDuration)
                /\ sess'.chk.id \in sess.dead => ~sess'.chk.res
                /\ ~sess'.chk.res /\ sess'.chk.id \in SessionIds
                   => sess'.store[sess'.chk.id] = Nil
          /\ sess.chk.pc = "refresh" /\ sess'.chk.pc = "done"
             => sess'.store[sess.chk.id] = <<sess.clock + SessionDuration>>
          /\ \A id \in SessionIds :
                sess.store[id] # Nil /\ sess'.store[id] = Nil
                => ~CheckAlive(sess.store, id, sess.clock)]_vars

\* a Check has just returned true and reset the expiry of its session, a
\* session that Create returned has been refused by Check, and the last sweep
\* of the scavenger removed one
SlidAndExpired ==
    /\ sess.chk.pc = "done"
    /\ sess.chk.res
    /\ sess.store[sess.chk.id] = <<sess.clock + SessionDuration>>
    /\ sess.clock >= SessionDuration
    /\ sess.dead # {}
    /\ sess.scav.removed # {}

\* the service is in a send to a handler that is itself waiting for mu in
\* Unsubscribe: neither can take another step
SendStalled ==
    /\ subs.svc.pc = "send"
    /\ \E x \in Clients : /\ subs.cl[x].myID = subs.svc.cur
                          /\ subs.cl[x].pc = "unsubscribe"

\* C18: a handler that was in the subscribers map when the broadcast of an id
\* started, has not called Unsubscribe and is waiting in its receive is never
\* left without that id behind a send that cannot complete; and what each
\* handler has received is, in order and without repetition, ids the service
\* accepted.
NotifyReachesAll ==
    /\ \A c \in Clients :
          /\ subs.svc.pc \in {"range", "send"}
          /\ subs.cl[c].myID \in subs.svc.todo
          /\ subs.cl[c].pc = "receive"
          => ~SendStalled
    /\ \A c \in Clients :
          \A a, b \in 1..Len(subs.cl[c].got) :
             a < b => \E x, y \in 1..Len(subs.accepted) :
                         /\ x < y
                         /\ subs.accepted[x] = subs.cl[c].got[a]
                         /\ subs.accepted[y] = subs.cl[c].got[b]

\* the notifications a handler has produced
NotifiedBy(i) == {k \in 1..Len(web.notified) : web.notified[k].h = i}

\* C16: in the PUT /competition handler, Notify is called, once and with the
\* id of the request body, exactly by the handlers whose call of Write returned
\* no error, and only once that write's commit is made; a request that
\* failed its write, had no valid session, was not JSON or did not decode (or
\* whose Write panicked) produces no notification.
NotifyOnlyAfterWrite ==
    /\ \A i \in Handlers :
          web.h[i].pc = "done"
          => (NotifiedBy(i) # {}
              <=> /\ web.h[i].w.op = "Write"
                  /\ web.h[i].w.err = ""
                  /\ ~web.h[i].w.panic)
    /\ \A i \in Handlers : Cardinality(NotifiedBy(i)) <= 1
    /\ \A k \in 1..Len(web.notified) :
          LET n  == web.notified[k]
              hd == web.h[n.h]
          IN  /\ hd.w.op = "Write" /\ hd.w.err = "" /\ ~hd.w.panic
              /\ hd.status = 200
              /\ hd.w.commit >= 1
              /\ n.commits >= hd.w.commit
              /\ checkJSON(hd.req[1])
              /\ hd.req[1].auth.kind = "session"
              /\ hd.req[1].auth.id \in sess.issued
              /\ hd.req[1].body # BodyMalformed
              /\ n.id = hd.req[1].body.id

\* one request was written and notified, with its id, while another one's
\* write failed and was answered 500 without a notification
NotifiedOneRefusedOther ==
    \E i, j \in Handlers :
       /\ web.h[i].pc = "done" /\ NotifiedBy(i) # {}
       /\ web.notified[1].id = 7
       /\ web.h[j].pc = "done" /\ web.h[j].w.op = "Write"
       /\ web.h[j].w.err # "" /\ web.h[j].status = 500
       /\ NotifiedBy(j) = {}

\* the revision counter as getLatestRevision reads it: -1 when the key is absent
CounterValue(tx) ==
    IF StoredCounter(tx) = Nil THEN -1 ELSE bytesToInt(StoredCounter(tx)[1]).i

\* the keys of the revision containers of root tx
RevisionKeys(tx) == DOMAIN SubOrEmpty(tx, "revisions")

\* C21: in every committed state the revision containers are exactly those
\* keyed 0 .. current_revision, each a container holding config.last_modified
\* and a competition that decodes; the counter is absent exactly when there
\* is no revision container; and no call leaves the counter lower than it
\* found it.
CounterMatchesRevisions ==
    LET revs == SubOrEmpty(db, "revisions")
        n    == CounterValue(db)
    IN  /\ DOMAIN revs = {intToBytes(i) : i \in 0..n}
        /\ \A k \in DOMAIN revs :
              /\ revs[k].t = "b"
              /\ Get(SubOrEmpty(revs[k].b, "config"), "last_modified") # Nil
              /\ readCompetition(SubOrEmpty(revs[k].b, "competition")).err = ""
        /\ (StoredCounter(db) = Nil) <=> (DOMAIN revs = {})
        /\ CounterValue(last.pre) <= n

\* two revisions are stored, the second made by a call that panicked after
\* its archive step and was committed
CounterAtOneAfterPanic ==
    /\ CounterValue(db) = 1
    /\ RevisionKeys(db) = {intToBytes(0), intToBytes(1)}
    /\ last.op = "Write"
    /\ last.panic

\* C22: decoding any stored container returns a Competition or an error
\* value, never a runtime panic; and it returns an error when the name is
\* empty or missing, when config, rounds, teams, a team container below the
\* team count or a team's scores container is absent, when a round name is
\* empty, and when a count or a score is not four bytes.
DecodeTotal ==
    codec.pc = "read"
    => LET b  == codec.b
           n  == bytesToInt(Bytes(Get(SubOrEmpty(b, "config"), "teams")))
           tb == SubOrEmpty(b, "teams")
       IN  /\ codec.r.err # "panic"
           /\ codec.r.err = "" <=> codec.r.c # Nil
           /\ (\/ Str(Get(b, "name")) = ""
               \/ ~HasBucket(b, "config")
               \/ ~HasBucket(b, "rounds")
               \/ ~HasBucket(b, "teams")
               \/ bytesToInt(Bytes(Get(SubOrEmpty(b, "config"), "rounds"))).err # ""
               \/ n.err # ""
               \/ (n.err = "" /\ \E i \in 0..(n.i - 1) :
                                    \/ ~HasBucket(tb, intToBytes(i))
                                    \/ ~HasBucket(SubOrEmpty(tb, intToBytes(i)),
                                                  "scores")))
              => codec.r.err # ""

\* C23: after a Write or Init that returned nil, whatever Competition value
\* the caller supplied, the live container decodes without error and read()
\* returns the document just written.
LiveAlwaysDecodable ==
    (/\ last.op \in {"Write", "Init"}
     /\ last.err = ""
     /\ ~last.panic
     /\ HasBucket(db, "competition"))
    => /\ Read(db).err = ""
       /\ last.op = "Write" => Read(db).c = last.arg

\* C24: in every store state, write(B) with a valid B has the same outcome
\* (error or success, resulting live document, resulting revision list)
\* whether it is called on the store as it is or on the same store after an
\* update_credentials.
WriteIgnoresCredentials ==
    \A cp \in {<<CompA>>, <<CompB>>} :
       LET plain == Write(db, cp, now, "none")
           cred  == Write(UpdateCredentials(db, "u", "p", "none").db, cp, now, "none")
       IN  /\ plain.err = cred.err
           /\ plain.panic = cred.panic
           /\ Read(plain.db) = Read(cred.db)
           /\ Revisions(plain.db) = Revisions(cred.db)

\* C25: when Init returns an error because its document write failed, the
\* stored username and hash are the ones in force before the call and
\* authenticate gives the same answers as before; and after any call of
\* UpdateCredentials the stored pair is either the pair from before the call
\* or the pair the call was given, never a mixture.
InitAllOrNothing ==
    /\ (last.op = "Init" /\ last.err = "Couldn't write competition to database")
       => /\ StoredUsername(db) = StoredUsername(last.pre)
          /\ StoredHash(db) = StoredHash(last.pre)
          /\ \A u \in Usernames \cup {"x"}, p \in Passwords :
                Authenticate(db, u, p) = Authenticate(last.pre, u, p)
    /\ last.op = "UpdateCredentials"
       => \/ /\ StoredUsername(db) = StoredUsername(last.pre)
             /\ StoredHash(db) = StoredHash(last.pre)
          \/ /\ StoredUsername(db) = <<last.arg.username>>
             /\ StoredHash(db) = <<GenerateFromPassword(last.arg.password)>>

\* a call of the service's API has been entered and has not returned: a
\* handler in Unsubscribe or a caller in Notify
CallPending ==
    \/ \E c \in Clients : subs.cl[c].pc = "unsubscribe"
    \/ \E k \in Notifiers : subs.nt[k] = "control"

\* C26: the subscribe service is deadlock-free: while a call of Notify or
\* Unsubscribe is pending, for every interleaving of broadcasts with
\* handlers whose connection write failed, some goroutine can still take a
\* step, so that no pending call is left behind a service loop and handlers
\* that can none of them move again.
SubscribeServiceDeadlockFree == CallPending => ENABLED NextSubs

\* handler i took this step, and its request carries no valid session
StepWithoutSession(i) ==
    /\ web'.h[i] # web.h[i]
    /\ web.h[i].req # Nil
    /\ ~(/\ web.h[i].req[1].auth.kind = "session"
         /\ CheckAlive(sess.store, web.h[i].req[1].auth.id, sess.clock))

\* C27: for every interleaving of concurrent PUT /competition requests, a
\* step of a request without a valid session changes the store only when no
\* live document exists at that moment: once a competition exists such a
\* request replaces neither the credentials nor the live document and
\* creates no revision.
NoSessionNoChangeOnceCreated ==
    [][\A i \in Handlers :
          StepWithoutSession(i) /\ Read(db).c # Nil
          => /\ db' = db
             /\ StoredUsername(db') = StoredUsername(db)
             /\ StoredHash(db') = StoredHash(db)
             /\ Read(db') = Read(db)
             /\ Revisions(db') = Revisions(db)]_vars

====
